---- MODULE Spec2Model ----
(***************************************************************************)
(* BSE demo, propofol (Marsh three-compartment PK): readParams, doseRate,  *)
(* deriv, solveRK4, computeMetrics and update of                           *)
(* src/demo/bse-propofol/bse_pk.js.                                        *)
(*                                                                         *)
(* Every value the script computes with is a JavaScript Number, an IEEE    *)
(* 754 binary64.  TLC's integers are 32 bits wide, so a Number is a record *)
(* [k, s, e, h, l]: k is "fin", "inf" or "nan", s the sign (1 = negative), *)
(* and a finite value is (h * 268435456 + l) * 2^e with a 53 bit significand,   *)
(* rounded to nearest, ties to even, after every operation, as the         *)
(* hardware does.  The two zeros are one value here: the script never      *)
(* divides by a zero and never prints a sign of zero.                      *)
(***************************************************************************)
EXTENDS Integers, Sequences, FiniteSets, TLC

(***************************************************************************)
(* Wide naturals: <<h, l>> is h * 268435456 + l, l < 268435456.                      *)
(***************************************************************************)
BitLen8(n) ==
  IF n >= 16
    THEN (IF n >= 64 THEN (IF n >= 128 THEN 8 ELSE 7) ELSE (IF n >= 32 THEN 6 ELSE 5))
    ELSE (IF n >= 4 THEN (IF n >= 8 THEN 4 ELSE 3) ELSE (IF n >= 2 THEN 2 ELSE n))

BitLen(n) ==
  IF n >= 65536
    THEN (IF n >= 16777216 THEN 24 + BitLen8(n \div 16777216)
                           ELSE 16 + BitLen8(n \div 65536))
    ELSE (IF n >= 256 THEN 8 + BitLen8(n \div 256) ELSE BitLen8(n))

WBitLen(w) == IF w[1] > 0 THEN 28 + BitLen(w[1]) ELSE BitLen(w[2])

WIsZero(w) == w[1] = 0 /\ w[2] = 0

WLess(a, b) == a[1] < b[1] \/ (a[1] = b[1] /\ a[2] < b[2])

WAdd(a, b) ==
  LET lo == a[2] + b[2]
  IN  <<a[1] + b[1] + (lo \div 268435456), lo % 268435456>>

\* a - b, for a >= b
WSub(a, b) ==
  IF a[2] >= b[2] THEN <<a[1] - b[1], a[2] - b[2]>>
                  ELSE <<a[1] - b[1] - 1, a[2] + 268435456 - b[2]>>

\* w * 2^k, for a product below 2^59
WShl(w, k) ==
  IF k = 0 THEN w
  ELSE IF k < 28
    THEN <<w[1] * 2^k + (w[2] \div 2^(28 - k)), (w[2] % 2^(28 - k)) * 2^k>>
    ELSE <<w[2] * 2^(k - 28), 0>>

\* floor(w / 2^k)
WShr(w, k) ==
  IF k = 0 THEN w
  ELSE IF k < 28
    THEN <<w[1] \div 2^k, (w[2] \div 2^k) + (w[1] % 2^k) * 2^(28 - k)>>
    ELSE IF k < 59 THEN <<0, w[1] \div 2^(k - 28)>> ELSE <<0, 0>>

\* some bit of w below bit k is set
WLost(w, k) ==
  IF k = 0 THEN FALSE
  ELSE IF k < 28 THEN w[2] % 2^k # 0
  ELSE IF k < 59 THEN w[2] # 0 \/ w[1] % 2^(k - 28) # 0
  ELSE ~WIsZero(w)

\* floor(w / 2^k) with the lost bits or-ed into bit 0 (a sticky bit)
WShrJam(w, k) ==
  LET q == WShr(w, k)
  IN  IF WLost(w, k) /\ q[2] % 2 = 0 THEN <<q[1], q[2] + 1>> ELSE q

(***************************************************************************)
(* Numbers.                                                                *)
(***************************************************************************)
EMin == 0 - 1074
EMax == 971

NaN == [k |-> "nan", s |-> 0, e |-> 0, h |-> 0, l |-> 0]
Inf(s) == [k |-> "inf", s |-> s, e |-> 0, h |-> 0, l |-> 0]
Zero == [k |-> "fin", s |-> 0, e |-> 0, h |-> 0, l |-> 0]
Fin(s, e, w) == [k |-> "fin", s |-> s, e |-> e, h |-> w[1], l |-> w[2]]

IsNaN(x) == x.k = "nan"
IsFinite(x) == x.k = "fin"
IsZero(x) == x.k = "fin" /\ x.h = 0 /\ x.l = 0
Sig(x) == <<x.h, x.l>>

\* the bits to drop from a significand of n bits at exponent e: down to 53,
\* or to the smallest exponent
RoundShift(e, n) == IF e + (n - 53) < EMin THEN EMin - e ELSE n - 53

\* q, or q + 1 when the two bits r dropped below it round up (ties to even)
RoundUp(q, r) == IF r > 2 \/ (r = 2 /\ q[2] % 2 = 1) THEN WAdd(q, <<0, 1>>) ELSE q

\* the Number m * 2^e of sign s, for m < 2^53: infinite past the largest exponent
PackRange(s, e, m) ==
  IF WIsZero(m) THEN Zero
  ELSE IF e > EMax THEN Inf(s)
  ELSE Fin(s, e, m)

\* a significand rounded up to 2^53 is 2^52 at the next exponent
PackCarry(s, e, m) ==
  IF m[1] >= 33554432 THEN PackRange(s, e + 1, <<16777216, 0>>)
  ELSE PackRange(s, e, m)

\* t is the significand with two more bits, the lower one sticky
PackRound(s, e, t) == PackCarry(s, e, RoundUp(WShr(t, 2), t[2] % 4))

PackShift(s, e, w, k) ==
  IF k <= 0 THEN Fin(s, e + k, WShl(w, 0 - k))
  ELSE PackRound(s, e + k, IF k = 1 THEN WShl(w, 1) ELSE WShrJam(w, k - 2))

\* round to nearest, ties to even: the Number nearest to (-1)^s * w * 2^e,
\* where an odd w may stand for any value strictly between w - 1 and w + 1
\* (a sticky bit), which the callers only pass when w has 55 bits or more
Pack(s, e, w) ==
  IF WIsZero(w) THEN Zero
  ELSE PackShift(s, e, w, RoundShift(e, WBitLen(w)))

\* the integer n, 0 <= n < 2^31, as a Number (exact)
FromInt(n) == Pack(0, 0, <<n \div 268435456, n % 268435456>>)

Neg(x) == IF IsNaN(x) \/ IsZero(x) THEN x ELSE [x EXCEPT !.s = 1 - x.s]

\* |a| < |b| for finite a, b
MagLess(a, b) ==
  IF IsZero(b) THEN FALSE
  ELSE IF IsZero(a) THEN TRUE
  ELSE a.e < b.e \/ (a.e = b.e /\ WLess(Sig(a), Sig(b)))

\* a < b; false when either is NaN
Lt(a, b) ==
  IF IsNaN(a) \/ IsNaN(b) THEN FALSE
  ELSE IF a.k = "inf" THEN a.s = 1 /\ ~(b.k = "inf" /\ b.s = 1)
  ELSE IF b.k = "inf" THEN b.s = 0
  ELSE IF IsZero(a) THEN ~IsZero(b) /\ b.s = 0
  ELSE IF IsZero(b) THEN a.s = 1
  ELSE IF a.s # b.s THEN a.s = 1
  ELSE IF a.s = 0 THEN MagLess(a, b) ELSE MagLess(b, a)

Gt(a, b) == Lt(b, a)
Le(a, b) == ~IsNaN(a) /\ ~IsNaN(b) /\ ~Lt(b, a)
Ge(a, b) == Le(b, a)

Add(a, b) ==
  IF IsNaN(a) \/ IsNaN(b) THEN NaN
  ELSE IF a.k = "inf" THEN (IF b.k = "inf" /\ b.s # a.s THEN NaN ELSE a)
  ELSE IF b.k = "inf" THEN b
  ELSE IF IsZero(a) THEN b
  ELSE IF IsZero(b) THEN a
  ELSE
    LET swap  == MagLess(a, b)
        big   == IF swap THEN b ELSE a
        small == IF swap THEN a ELSE b
        A     == WShl(Sig(big), 3)
        B     == WShrJam(WShl(Sig(small), 3), big.e - small.e)
    IN  IF big.s = small.s THEN Pack(big.s, big.e - 3, WAdd(A, B))
                           ELSE Pack(big.s, big.e - 3, WSub(A, B))

Sub(a, b) == Add(a, Neg(b))

\* the significand of a finite nonzero x shifted up to 53 bits, and its exponent
NormSig(x) == IF x.h >= 16777216 THEN Sig(x) ELSE WShl(Sig(x), 53 - WBitLen(Sig(x)))
NormExp(x) == IF x.h >= 16777216 THEN x.e ELSE x.e - (53 - WBitLen(Sig(x)))

\* floor(a * b / 2^50), jammed, for 53 bit a and b, by 14 bit limbs
WMulHi(a, b) ==
  LET a0 == a[2] % 16384   a1 == a[2] \div 16384
      a2 == a[1] % 16384   a3 == a[1] \div 16384
      b0 == b[2] % 16384   b1 == b[2] \div 16384
      b2 == b[1] % 16384   b3 == b[1] \div 16384
      c0 == a0 * b0
      c1 == a0 * b1 + a1 * b0 + (c0 \div 16384)
      c2 == a0 * b2 + a1 * b1 + a2 * b0 + (c1 \div 16384)
      c3 == a0 * b3 + a1 * b2 + a2 * b1 + a3 * b0 + (c2 \div 16384)
      c4 == a1 * b3 + a2 * b2 + a3 * b1 + (c3 \div 16384)
      c5 == a2 * b3 + a3 * b2 + (c4 \div 16384)
      c6 == a3 * b3 + (c5 \div 16384)
      p3 == c3 % 16384
      p4 == c4 % 16384
      p5 == c5 % 16384
      p6 == c6 % 16384
      p7 == c6 \div 16384
      lo == (p3 \div 256) + p4 * 64 + (p5 % 256) * 1048576
      hi == (p5 \div 256) + p6 * 64 + p7 * 1048576
      lost == c0 % 16384 # 0 \/ c1 % 16384 # 0 \/ c2 % 16384 # 0 \/ p3 % 256 # 0
  IN  IF lost /\ lo % 2 = 0 THEN <<hi, lo + 1>> ELSE <<hi, lo>>

Mul(a, b) ==
  IF IsNaN(a) \/ IsNaN(b) THEN NaN
  ELSE IF a.k = "inf" \/ b.k = "inf"
    THEN (IF IsZero(a) \/ IsZero(b) THEN NaN ELSE Inf((a.s + b.s) % 2))
  ELSE IF IsZero(a) \/ IsZero(b) THEN Zero
  ELSE Pack((a.s + b.s) % 2, NormExp(a) + NormExp(b) + 50,
            WMulHi(NormSig(a), NormSig(b)))

\* one step of binary long division of r by d, r < 2 * d: c is <<the
\* quotient so far, r>>, and the step appends the next quotient bit and
\* doubles the remainder
DivStep(c, d) ==
  IF WLess(c[2], d) THEN <<2 * c[1], WShl(c[2], 1)>>
  ELSE <<2 * c[1] + 1, WShl(WSub(c[2], d), 1)>>

\* eight steps: <<floor(r * 2^7 / d), the remainder doubled eight times>>
WDiv8(r, d) ==
  DivStep(DivStep(DivStep(DivStep(DivStep(DivStep(DivStep(DivStep(
    <<0, r>>, d), d), d), d), d), d), d), d)

\* the last eight bits c[1] of a quotient, with a nonzero remainder c[2]
\* or-ed into bit 0
WDivLast(c) == <<0, IF ~WIsZero(c[2]) /\ c[1] % 2 = 0 THEN c[1] + 1 ELSE c[1]>>

\* floor(r * 2^(8 * i - 1) / d) for r < 2 * d, with a nonzero remainder or-ed
\* into bit 0; c is WDiv8(r, d)
RECURSIVE WDivBits(_, _, _)
WDivBits(c, d, i) ==
  IF i = 1 THEN WDivLast(c)
  ELSE WAdd(WShl(<<0, c[1]>>, 8 * (i - 1)), WDivBits(WDiv8(c[2], d), d, i - 1))

Div(a, b) ==
  IF IsNaN(a) \/ IsNaN(b) THEN NaN
  ELSE IF a.k = "inf" THEN (IF b.k = "inf" THEN NaN ELSE Inf((a.s + b.s) % 2))
  ELSE IF b.k = "inf" THEN Zero
  ELSE IF IsZero(b) THEN (IF IsZero(a) THEN NaN ELSE Inf(a.s))
  ELSE IF IsZero(a) THEN Zero
  ELSE Pack((a.s + b.s) % 2, NormExp(a) - NormExp(b) - 55,
            WDivBits(WDiv8(NormSig(a), NormSig(b)), NormSig(b), 7))

Min(a, b) == IF IsNaN(a) \/ IsNaN(b) THEN NaN ELSE IF Lt(b, a) THEN b ELSE a
Max(a, b) == IF IsNaN(a) \/ IsNaN(b) THEN NaN ELSE IF Lt(a, b) THEN b ELSE a

\* Math.ceil(x) as an integer, for a finite x with 0 <= x < 2^30
Ceil(x) ==
  IF IsZero(x) THEN 0
  ELSE IF 0 - x.e >= 59 THEN 1
  ELSE WShr(Sig(x), 0 - x.e)[2] + (IF WLost(Sig(x), 0 - x.e) THEN 1 ELSE 0)

\* the decimal literal d / 10^k of the source text, d < 2^31, k <= 9: the
\* Number nearest to it (d and 10^k are Numbers, and a quotient is rounded once)
Dec(d, k) == Div(FromInt(d), FromInt(10^k))

(***************************************************************************)
(* Strings.  The text of an input element or of a display is a record: the *)
(* empty string, a text that starts no number, "Infinity" or "-Infinity",  *)
(* or a decimal, digits / 10^scale with a sign.                            *)
(***************************************************************************)
Empty == [kind |-> "empty", neg |-> FALSE, digits |-> 0, scale |-> 0]
Text == [kind |-> "text", neg |-> FALSE, digits |-> 0, scale |-> 0]
Infinity(neg) == [kind |-> "inf", neg |-> neg, digits |-> 0, scale |-> 0]
Decimal(neg, digits, scale) ==
  [kind |-> "dec", neg |-> neg, digits |-> digits, scale |-> scale]

\* x, or -x when neg
Signed(neg, x) == IF neg THEN Neg(x) ELSE x

parseFloat(str) ==
  IF str.kind = "dec" THEN Signed(str.neg, Dec(str.digits, str.scale))
  ELSE IF str.kind = "inf" THEN Inf(IF str.neg THEN 1 ELSE 0)
  ELSE NaN

\* x.toFixed(4) for a finite x, 0 <= x < 2^16: the integer n nearest to
\* x * 10^4, the larger one of two, written with four decimals
toFixed4(x) ==
  IF IsZero(x) THEN Decimal(FALSE, 0, 4)
  ELSE
    LET a0 == x.l % 16384   a1 == x.l \div 16384
        a2 == x.h % 16384   a3 == x.h \div 16384
        c0 == a0 * 10000
        c1 == a1 * 10000 + (c0 \div 16384)
        c2 == a2 * 10000 + (c1 \div 16384)
        c3 == a3 * 10000 + (c2 \div 16384)
        w1 == (c2 % 16384) + (c3 % 16384) * 16384
        w2 == c3 \div 16384
        j  == 0 - x.e - 1
        f  == IF j >= 84 THEN 0
              ELSE IF j >= 56 THEN w2 \div 2^(j - 56)
              ELSE w2 * 2^(56 - j) + (w1 \div 2^(j - 28))
    IN  Decimal(FALSE, (f + 1) \div 2, 4)

(***************************************************************************)
(* The page: six input elements and their displays.                        *)
(***************************************************************************)
ids == {"weight", "bolus_mg", "infusion_mg_min", "infusion_duration_min",
        "t_end_min", "dt_min"}

\* the text of a display: a Number written out (String(x), which reads back
\* as x) or a string copied from an input
ShowNumber(x) == [t |-> "num", n |-> x, str |-> Empty]
ShowString(str) == [t |-> "str", n |-> NaN, str |-> str]
Blank == ShowString(Empty)

\* the Number a display's text reads as
Shown(d) == IF d.t = "num" THEN d.n ELSE parseFloat(d.str)

\* --- Marsh constants (min^-1) and volumes (L/kg) ---
k10 == Dec(119, 3)
k12 == Dec(112, 3)
k21 == Dec(55, 3)
k13 == Dec(42, 3)
k31 == Dec(33, 4)
V1_per_kg == Dec(228, 3)

MAX_STEPS == 20000

\* k10 + k12 + k13
kOut == Add(Add(k10, k12), k13)

\* the other literals of the source text
Half == Dec(5, 1)
Two == FromInt(2)
Six == FromInt(6)
DefaultWeight == FromInt(70)
DefaultHorizon == FromInt(240)
DefaultStep == Dec(2, 1)
MaxStepsNumber == FromInt(MAX_STEPS)

\* PositiveOr with a guard that lets a zero through
PositiveOrLax(x, d) == IF ~IsFinite(x) \/ Lt(x, Zero) THEN d ELSE x

\* if (!Number.isFinite(x) || x <= 0) x = d
PositiveOr(x, d) == IF ~IsFinite(x) \/ Le(x, Zero) THEN d ELSE x

\* if (!Number.isFinite(x) || x < 0) x = d
NonNegativeOr(x, d) == IF ~IsFinite(x) \/ Lt(x, Zero) THEN d ELSE x

\* Guardrails: p after them, from the parsed fields q
Guardrails(q) ==
  [weight                |-> PositiveOr(q.weight, DefaultWeight),
   bolus_mg              |-> NonNegativeOr(q.bolus_mg, Zero),
   infusion_mg_min       |-> NonNegativeOr(q.infusion_mg_min, Zero),
   infusion_duration_min |-> NonNegativeOr(q.infusion_duration_min, Zero),
   t_end_min             |-> PositiveOr(q.t_end_min, DefaultHorizon),
   dt_min                |-> PositiveOr(q.dt_min, DefaultStep)]

\* the step count exceeds the cap
OverCap(g) == Gt(Div(g.t_end_min, g.dt_min), MaxStepsNumber)

CappedStep(g) == Div(g.t_end_min, MaxStepsNumber)

\* The step count is capped: the step dt is returned, and its text fix is left
\* in the input element and in its display
Reflect(inp, g, d, dt, fix) ==
  [p        |-> [g EXCEPT !.dt_min = dt],
   inputs   |-> [inp EXCEPT !.dt_min = fix],
   displays |-> [d EXCEPT !.dt_min = ShowString(fix)]]

\* Cap steps to avoid runaway
Limit(inp, g, d) ==
  IF OverCap(g) THEN Reflect(inp, g, d, CappedStep(g), toFixed4(CappedStep(g)))
  ELSE [p |-> g, inputs |-> inp, displays |-> d]

\* the first loop has parsed the fields to q and displayed them
Parsed(inp, q) ==
  Limit(inp, Guardrails(q),
        [id \in ids |-> ShowNumber(IF IsFinite(q[id]) THEN q[id] ELSE Zero)])

\* readParams(): the parameters it returns and the texts it leaves in the
\* input elements and in the displays
readParams(inp) == Parsed(inp, [id \in ids |-> parseFloat(inp[id])])

\* doseRate without the guard on the duration
doseRateAnyDuration(t, p) ==
  IF Le(p.infusion_mg_min, Zero) THEN Zero
  ELSE IF Le(t, p.infusion_duration_min) THEN p.infusion_mg_min ELSE Zero

\* doseRate with the infusion stopped before the boundary
doseRateExclusive(t, p) ==
  IF Le(p.infusion_mg_min, Zero) \/ Le(p.infusion_duration_min, Zero) THEN Zero
  ELSE IF Lt(t, p.infusion_duration_min) THEN p.infusion_mg_min ELSE Zero

\* Infusion (mg/min) applied from t=0 to t=infusion_duration
doseRate(t, p) ==
  IF Le(p.infusion_mg_min, Zero) \/ Le(p.infusion_duration_min, Zero) THEN Zero
  ELSE IF Le(t, p.infusion_duration_min) THEN p.infusion_mg_min ELSE Zero

\* derivatives
deriv(t, A1, A2, A3, p) ==
  LET input == doseRate(t, p)
  IN  << Sub(Add(Add(input, Mul(k21, A2)), Mul(k31, A3)),
             Mul(kOut, A1)),
         Sub(Mul(k12, A1), Mul(k21, A2)),
         Sub(Mul(k13, A1), Mul(k31, A3)) >>

\* the loop bound of solveRK4
nSteps(p) == Ceil(Div(p.t_end_min, p.dt_min))

\* the step the loop takes at time t
StepSize(t, p) == Min(p.dt_min, Sub(p.t_end_min, t))

\* the times of the four derivative evaluations of a step
StageTimes(t, h) ==
  LET mid == Add(t, Mul(Half, h)) IN << t, mid, mid, Add(t, h) >>

\* Clamp left out
NoClamp(a) == a

\* Avoid tiny negatives from numerical error
Clamp(a) == Max(Zero, a)

\* Advance with the time left where it is
Stall(t, h) == t

\* t += h
Advance(t, h) == Add(t, h)

\* one RK4 increment: a + (h/6) * (c1 + 2*c2 + 2*c3 + c4), h6 being h/6
Increment(a, h6, c1, c2, c3, c4) ==
  Add(a, Mul(h6, Add(Add(Add(c1, Mul(Two, c2)), Mul(Two, c3)), c4)))

\* the body of the loop of solveRK4, on the loop's variables
LoopBody(st, p) ==
  LET t    == st.t
      A1   == st.A1
      A2   == st.A2
      A3   == st.A3
      h    == StepSize(t, p)
      ts   == StageTimes(t, h)
      hh   == Mul(Half, h)
      h6   == Div(h, Six)
      k1   == deriv(ts[1], A1, A2, A3, p)
      k2   == deriv(ts[2], Add(A1, Mul(hh, k1[1])), Add(A2, Mul(hh, k1[2])),
                    Add(A3, Mul(hh, k1[3])), p)
      k3   == deriv(ts[3], Add(A1, Mul(hh, k2[1])), Add(A2, Mul(hh, k2[2])),
                    Add(A3, Mul(hh, k2[3])), p)
      k4   == deriv(ts[4], Add(A1, Mul(h, k3[1])), Add(A2, Mul(h, k3[2])),
                    Add(A3, Mul(h, k3[3])), p)
      nA1  == Clamp(Increment(A1, h6, k1[1], k2[1], k3[1], k4[1]))
      nA2  == Clamp(Increment(A2, h6, k1[2], k2[2], k3[2], k4[2]))
      nA3  == Clamp(Increment(A3, h6, k1[3], k2[3], k3[3], k4[3]))
      nt   == Advance(t, h)
  IN  [t |-> nt, A1 |-> nA1, A2 |-> nA2, A3 |-> nA3,
       arr_t  |-> Append(st.arr_t, nt),   arr_A1 |-> Append(st.arr_A1, nA1),
       arr_A2 |-> Append(st.arr_A2, nA2), arr_A3 |-> Append(st.arr_A3, nA3),
       i |-> st.i + 1]

\* for (let i = 0; i < nSteps; i++) { if (t >= p.t_end_min) break; ... }
\* k passes through the loop's head and body, the first half of them and then
\* the rest: none once i has reached n or t the horizon
RECURSIVE Loop(_, _, _, _)
Loop(st, k, n, p) ==
  IF k = 0 \/ st.i >= n \/ Ge(st.t, p.t_end_min) THEN st
  ELSE IF k = 1 THEN LoopBody(st, p)
  ELSE Loop(Loop(st, k \div 2, n, p), k - (k \div 2), n, p)

\* the loop of solveRK4 run from the initial conditions: its variables at exit
\* (instantaneous bolus into central compartment)
RunLoop(p) ==
  Loop([t |-> Zero, A1 |-> p.bolus_mg, A2 |-> Zero, A3 |-> Zero,
        arr_t  |-> <<Zero>>, arr_A1 |-> <<p.bolus_mg>>,
        arr_A2 |-> <<Zero>>, arr_A3 |-> <<Zero>>, i |-> 0],
       nSteps(p), nSteps(p), p)

\* RK4 solver
solveRK4(p) ==
  LET end == RunLoop(p)
      V1  == Mul(V1_per_kg, p.weight)
  IN  [t |-> end.arr_t, A1 |-> end.arr_A1, A2 |-> end.arr_A2, A3 |-> end.arr_A3,
       C1 |-> [j \in 1..Len(end.arr_A1) |-> Div(end.arr_A1[j], V1)]]

\* The loop of solveRK4 on t and i alone (h and t += h read no mass).  One
\* pass through the loop's head and body, c being <<t, the steps taken>>: a
\* pass after the break leaves them as they are
TimeStep(c, p) ==
  IF Ge(c[1], p.t_end_min) THEN c
  ELSE <<Advance(c[1], StepSize(c[1], p)), c[2] + 1>>

\* n passes, the first half of them and then the rest; none once t has
\* reached the horizon
RECURSIVE TimeLoop(_, _, _)
TimeLoop(c, n, p) ==
  IF n = 0 \/ Ge(c[1], p.t_end_min) THEN c
  ELSE IF n = 1 THEN TimeStep(c, p)
  ELSE TimeLoop(TimeLoop(c, n \div 2, p), n - (n \div 2), p)

\* <<t, the steps taken>> when the loop of solveRK4 exits
TimeAtExit(p) == TimeLoop(<<Zero, 0>>, nSteps(p), p)

\* Higher with >= for >
HigherOrEqual(c, cmax) == Ge(c, cmax)

\* if (c > cmax)
Higher(c, cmax) == Gt(c, cmax)

\* the body of the loop of computeMetrics, on cmax, tmax, auc and i (the
\* points done: sol.C1[i] of the script is sol.C1[m.i + 1] here)
MetricsBody(m, sol) ==
  LET c == sol.C1[m.i + 1]
      higher == Higher(c, m.cmax)
  IN  [cmax |-> IF higher THEN c ELSE m.cmax,
       tmax |-> IF higher THEN sol.t[m.i + 1] ELSE m.tmax,
       auc  |-> IF m.i > 0
                  THEN Add(m.auc, Mul(Mul(Half, Add(sol.C1[m.i + 1], sol.C1[m.i])),
                                      Sub(sol.t[m.i + 1], sol.t[m.i])))
                  ELSE m.auc,
       i    |-> m.i + 1]

\* for (let i = 0; i < sol.C1.length; i++)
\* k passes through the loop's head and body, the first half of them and then
\* the rest: none once i has reached the length
RECURSIVE MetricsLoop(_, _, _)
MetricsLoop(m, k, sol) ==
  IF k = 0 \/ m.i >= Len(sol.C1) THEN m
  ELSE IF k = 1 THEN MetricsBody(m, sol)
  ELSE MetricsLoop(MetricsLoop(m, k \div 2, sol), k - (k \div 2), sol)

\* Metrics on C1
computeMetrics(sol) ==
  MetricsLoop([cmax |-> Inf(1), tmax |-> Zero, auc |-> Zero, i |-> 0],
              Len(sol.C1), sol)

(***************************************************************************)
(* The state: the texts of the input elements and of their displays; raw,  *)
(* the texts the last readParams read; p, the parameters it returned (none *)
(* before the first run of update()); and the number of input events       *)
(* handled.  solveRK4 and computeMetrics compute from p alone and          *)
(* renderPlots only draws, so the trace and the metrics of the last run    *)
(* are functions of p: Sol and Metrics.                                    *)
(***************************************************************************)
VARIABLES inputs, displays, raw, p, rendered, events

vars == <<inputs, displays, raw, p, rendered, events>>

Sol == solveRK4(p)
Metrics == computeMetrics(Sol)

\* input events the model follows
MaxEvents == 1

\* update() has read the texts inp, and r is what readParams returned and left
Updated(inp, r) ==
  /\ raw' = inp
  /\ inputs' = r.inputs
  /\ displays' = r.displays
  /\ p' = r.p
  /\ rendered' = TRUE

\* update(), with the input elements holding inp
update(inp) == Updated(inp, readParams(inp))

\* First render
FirstRender ==
  /\ ~rendered
  /\ update(inputs)
  /\ events' = events

\* an input event on element id, which now holds the text v (the text it held
\* before, when the user typed it again)
InputEvent(id, v) ==
  /\ rendered
  /\ events < MaxEvents
  /\ update([inputs EXCEPT ![id] = v])
  /\ events' = events + 1

\* DOMContentLoaded, before the first render
Loaded(inp) ==
  /\ inputs = inp
  /\ displays = [id \in ids |-> Blank]
  /\ raw = inp
  /\ p = [id \in ids |-> NaN]
  /\ rendered = FALSE
  /\ events = 0

(***************************************************************************)
(* Spec: short runs.  The horizons and steps give runs of 1 to 40 steps:   *)
(* a last step shrunk to land on the horizon (0.9 by 0.5), a run that ends *)
(* short of it (0.9 by 0.3), a loop left by its break (2.1 by 0.3), and a  *)
(* step so long that a mass goes negative before the clamp (5 by 5 with    *)
(* an infusion of 0.5 min).                                                *)
(***************************************************************************)
RunValues ==
  [weight                |-> {Decimal(FALSE, 70, 0), Decimal(FALSE, 55, 0)},
   bolus_mg              |-> {Decimal(FALSE, 0, 0), Decimal(FALSE, 100, 0)},
   infusion_mg_min       |-> {Decimal(FALSE, 0, 0), Decimal(FALSE, 10, 0)},
   infusion_duration_min |-> {Decimal(FALSE, 0, 0), Decimal(FALSE, 5, 1)},
   t_end_min             |-> {Decimal(FALSE, 9, 1), Decimal(FALSE, 21, 1), Decimal(FALSE, 5, 0),
                             Decimal(FALSE, 12, 0)},
   dt_min                |-> {Decimal(FALSE, 3, 1), Decimal(FALSE, 5, 1), Decimal(FALSE, 5, 0)}]

Init == \E inp \in [weight                : RunValues.weight,
                    bolus_mg              : RunValues.bolus_mg,
                    infusion_mg_min       : RunValues.infusion_mg_min,
                    infusion_duration_min : RunValues.infusion_duration_min,
                    t_end_min             : RunValues.t_end_min,
                    dt_min                : RunValues.dt_min] : Loaded(inp)

Next ==
  \/ FirstRender
  \/ \E id \in ids : \E v \in RunValues[id] : InputEvent(id, v)

Spec == Init /\ [][Next]_vars

(***************************************************************************)
(* SpecInput: any input.  Every field is missing (""), not a number        *)
(* ("abc"), not finite, negative, zero or positive; the horizons 240, 647  *)
(* and 1 with the steps 0.001 and 0.00001 ask for more than MAX_STEPS      *)
(* steps.  These runs have 1200 steps and more: the formulas checked under *)
(* SpecInput speak of the parameters and of the loop bound, not of Sol.    *)
(***************************************************************************)
Invalid == {Empty, Text, Infinity(FALSE), Infinity(TRUE), Decimal(TRUE, 1, 0)}

AnyValues ==
  [weight                |-> Invalid \cup {Decimal(FALSE, 0, 0), Decimal(FALSE, 70, 0)},
   bolus_mg              |-> Invalid \cup {Decimal(FALSE, 0, 0), Decimal(FALSE, 100, 0)},
   infusion_mg_min       |-> Invalid \cup {Decimal(FALSE, 0, 0), Decimal(FALSE, 10, 0)},
   infusion_duration_min |-> Invalid \cup {Decimal(FALSE, 0, 0), Decimal(FALSE, 30, 0)},
   t_end_min             |-> Invalid \cup {Decimal(FALSE, 0, 0), Decimal(FALSE, 240, 0),
                                           Decimal(FALSE, 647, 0), Decimal(FALSE, 1, 0)},
   dt_min                |-> Invalid \cup {Decimal(FALSE, 0, 0), Decimal(FALSE, 2, 1),
                                           Decimal(FALSE, 1, 3), Decimal(FALSE, 1, 5)}]

InitInput ==
  \/ Loaded([id \in ids |-> Empty])
  \/ \E inp \in [weight                : {Decimal(FALSE, 70, 0)},
                 bolus_mg              : {Decimal(FALSE, 100, 0)},
                 infusion_mg_min       : {Decimal(FALSE, 10, 0)},
                 infusion_duration_min : {Decimal(FALSE, 30, 0)},
                 t_end_min             : {Decimal(FALSE, 240, 0), Decimal(FALSE, 647, 0),
                                          Decimal(FALSE, 1, 0)},
                 dt_min                : {Decimal(FALSE, 2, 1), Decimal(FALSE, 1, 3),
                                          Decimal(FALSE, 1, 5)}] : Loaded(inp)

NextInput ==
  \/ FirstRender
  \/ \E id \in ids : \E v \in AnyValues[id] : InputEvent(id, v)

SpecInput == InitInput /\ [][NextInput]_vars

(***************************************************************************)
(* What the claims speak of.                                               *)
(***************************************************************************)
\* the fields as the last readParams parsed them, and after its guardrails
RawParsed == [id \in ids |-> parseFloat(raw[id])]
Requested == Guardrails(RawParsed)

\* x is a finite number > 0, >= 0
IsPositive(x) == IsFinite(x) /\ Gt(x, Zero)
IsNonNegative(x) == IsFinite(x) /\ Ge(x, Zero)

\* a field that must be > 0 keeps its value x or is replaced by d
KeptPositive(x, d, y) == y = (IF IsPositive(x) THEN x ELSE d)
KeptNonNegative(x, d, y) == y = (IF IsNonNegative(x) THEN x ELSE d)

Last(seq) == seq[Len(seq)]

AllZero(seq) == \A j \in 1..Len(seq) : IsZero(seq[j])
AllNonNegative(seq) == \A j \in 1..Len(seq) : Ge(seq[j], Zero)

\* the infusion term of dA1: with empty compartments dA1 is the term itself
InputTerm(t) == deriv(t, Zero, Zero, Zero, p)[1]

\* the stage times of the step taken from the j-th point of the trace sol
StagesAt(sol, j) == StageTimes(sol.t[j], StepSize(sol.t[j], p))

\* the term the infusion schedule gives at time t
Scheduled(t) ==
  IF Gt(p.infusion_mg_min, Zero) /\ Gt(p.infusion_duration_min, Zero)
     /\ Le(t, p.infusion_duration_min)
    THEN p.infusion_mg_min ELSE Zero

(***************************************************************************)
(* C1.  Whatever the six fields hold (nothing, no number, an infinity, a   *)
(* negative number, zero or a positive number), readParams returns         *)
(* parameters with weight > 0, bolus >= 0, infusion rate >= 0, infusion    *)
(* duration >= 0, horizon > 0 and step > 0; a field that breaks its        *)
(* constraint is replaced by its default (70, 0, 0, 0, 240, 0.2) and one   *)
(* that meets it keeps its value, but for the step, which the step-count   *)
(* guard may enlarge and nothing else changes.                             *)
(***************************************************************************)
C1_Normalised ==
  rendered =>
    LET q    == RawParsed
        want == IF IsPositive(q.dt_min) THEN q.dt_min ELSE Dec(2, 1)
    IN  /\ IsPositive(p.weight)
        /\ IsNonNegative(p.bolus_mg)
        /\ IsNonNegative(p.infusion_mg_min)
        /\ IsNonNegative(p.infusion_duration_min)
        /\ IsPositive(p.t_end_min)
        /\ IsPositive(p.dt_min)
        /\ KeptPositive(q.weight, FromInt(70), p.weight)
        /\ KeptNonNegative(q.bolus_mg, Zero, p.bolus_mg)
        /\ KeptNonNegative(q.infusion_mg_min, Zero, p.infusion_mg_min)
        /\ KeptNonNegative(q.infusion_duration_min, Zero, p.infusion_duration_min)
        /\ KeptPositive(q.t_end_min, FromInt(240), p.t_end_min)
        /\ Ge(p.dt_min, want)
        /\ (p.dt_min # want => Gt(Div(p.t_end_min, want), FromInt(20000)))

\* a run that read a negative horizon, which it replaced, and a bolus, which
\* it kept
C1_Replaced ==
  /\ rendered
  /\ raw.t_end_min = Decimal(TRUE, 1, 0)
  /\ p.t_end_min = FromInt(240)
  /\ raw.bolus_mg = Decimal(FALSE, 100, 0)
  /\ p.bolus_mg = FromInt(100)

(***************************************************************************)
(* C2.  The loop of solveRK4 takes at most 20000 steps, the trace has at   *)
(* most 20001 points, and when more than 20000 steps are asked for the     *)
(* step becomes horizon / 20000, for which ceil(horizon / step) <= 20000.  *)
(***************************************************************************)
C2_AtMostMaxSteps ==
  rendered =>
    /\ TimeAtExit(p)[2] <= 20000
    /\ nSteps(p) <= 20000
    /\ (OverCap(Requested) => p.dt_min = Div(p.t_end_min, FromInt(20000)))

\* a run whose step the guard enlarged
C2_Capped == rendered /\ OverCap(Requested) /\ Gt(p.dt_min, Requested.dt_min)

(***************************************************************************)
(* C3.  When readParams enlarges the step, the step the run uses is the    *)
(* one written to the step input and to its display: after the update the  *)
(* input and the display show the step the run used.                       *)
(***************************************************************************)
C3_ReportedStepIsUsed ==
  (rendered /\ OverCap(Requested)) =>
    /\ parseFloat(inputs.dt_min) = p.dt_min
    /\ Shown(displays.dt_min) = p.dt_min

\* a run with an enlarged step that the input and the display do show
C3_ReportedExactly ==
  /\ rendered
  /\ OverCap(Requested)
  /\ parseFloat(inputs.dt_min) = p.dt_min
  /\ Shown(displays.dt_min) = p.dt_min

(***************************************************************************)
(* C4.  The last time point of the trace is the horizon, and every time    *)
(* point t has 0 <= t <= horizon.                                          *)
(***************************************************************************)
C4_EndsAtHorizon ==
  rendered =>
    LET sol == Sol
    IN  /\ Last(sol.t) = p.t_end_min
        /\ \A j \in 1..Len(sol.t) : Ge(sol.t[j], Zero) /\ Le(sol.t[j], p.t_end_min)

\* a run whose last step is shrunk to land on the horizon
C4_ShrunkLastStep ==
  /\ rendered
  /\ LET sol == Sol
     IN  /\ Len(sol.t) > 2
         /\ Last(sol.t) = p.t_end_min
         /\ Lt(Sub(Last(sol.t), sol.t[Len(sol.t) - 1]), p.dt_min)

(***************************************************************************)
(* C5.  The five sequences of a trace have one length, the steps taken     *)
(* plus 1, which is ceil(horizon / step) + 1 unless the loop broke early;  *)
(* the first time point is 0 and the times increase strictly.              *)
(***************************************************************************)
C5_TraceShape ==
  rendered =>
    LET sol   == Sol
        steps == TimeAtExit(p)[2]
        n     == Len(sol.t)
    IN  /\ Len(sol.A1) = n /\ Len(sol.A2) = n /\ Len(sol.A3) = n
        /\ DOMAIN sol.C1 = 1..n
        /\ n = steps + 1
        /\ steps <= nSteps(p)
        /\ (steps < nSteps(p) => Ge(Last(sol.t), p.t_end_min))
        /\ sol.t[1] = Zero
        /\ \A j \in 1..(n - 1) : Lt(sol.t[j], sol.t[j + 1])

\* a run the break ended before the count
C5_EarlyBreak ==
  /\ rendered
  /\ LET sol == Sol
     IN  /\ TimeAtExit(p)[2] < nSteps(p)
         /\ Len(sol.t) = TimeAtExit(p)[2] + 1
         /\ Len(sol.t) > 2

(***************************************************************************)
(* C6.  A1, A2 and A3 are >= 0 at every point of a trace, the first one    *)
(* included, so every C1 is >= 0 and auc is >= 0.                          *)
(***************************************************************************)
C6_NonNegative ==
  rendered =>
    LET sol == Sol
    IN  /\ AllNonNegative(sol.A1)
        /\ AllNonNegative(sol.A2)
        /\ AllNonNegative(sol.A3)
        /\ \A j \in DOMAIN sol.C1 : Ge(sol.C1[j], Zero)
        /\ Ge(computeMetrics(sol).auc, Zero)

\* a step that emptied the central compartment: its mass is clamped to 0
\* while drug sits in the two others
C6_Clamped ==
  /\ rendered
  /\ LET sol == Sol
     IN  \E j \in 2..Len(sol.A1) :
           IsZero(sol.A1[j]) /\ Gt(sol.A2[j], Zero) /\ Gt(sol.A3[j], Zero)

(***************************************************************************)
(* C7.  With no bolus and an infusion of rate 0 or of duration 0, A1, A2,  *)
(* A3 and C1 are 0 at every point, and cmax = 0, tmax = 0, auc = 0.        *)
(***************************************************************************)
C7_NoDoseNoDrug ==
  (/\ rendered
   /\ IsZero(p.bolus_mg)
   /\ (IsZero(p.infusion_mg_min) \/ IsZero(p.infusion_duration_min)))
  =>
    LET sol == Sol
        m   == computeMetrics(sol)
    IN  /\ AllZero(sol.A1) /\ AllZero(sol.A2) /\ AllZero(sol.A3)
        /\ \A j \in DOMAIN sol.C1 : IsZero(sol.C1[j])
        /\ m.cmax = Zero /\ m.tmax = Zero /\ m.auc = Zero

\* a run with no bolus and a rate that is given no time
C7_RateWithoutDuration ==
  /\ rendered
  /\ IsZero(p.bolus_mg)
  /\ Gt(p.infusion_mg_min, Zero)
  /\ IsZero(p.infusion_duration_min)
  /\ LET sol == Sol IN Len(sol.t) > 2 /\ AllZero(sol.A1)

(***************************************************************************)
(* C8.  cmax is the largest C1 of the trace and tmax the time of the first *)
(* point that has it.                                                      *)
(***************************************************************************)
C8_PeakAndItsTime ==
  rendered =>
    LET sol == Sol
        m   == computeMetrics(sol)
    IN  /\ \A j \in DOMAIN sol.C1 : Le(sol.C1[j], m.cmax)
        /\ \E j \in DOMAIN sol.C1 :
             /\ sol.C1[j] = m.cmax
             /\ \A i \in 1..(j - 1) : Lt(sol.C1[i], m.cmax)
             /\ m.tmax = sol.t[j]

\* a trace with its largest C1 at several points, and tmax the time of the
\* first of them
C8_Tie ==
  /\ rendered
  /\ LET sol == Sol
         m   == computeMetrics(sol)
     IN  /\ \E i, j \in DOMAIN sol.C1 :
               i < j /\ sol.C1[i] = m.cmax /\ sol.C1[j] = m.cmax
         /\ m.tmax = sol.t[1]
         /\ sol.C1[1] = m.cmax

(***************************************************************************)
(* C9.  At the stage times t, t + h/2 and t + h of every step, the         *)
(* infusion term is the infusion rate when the rate is > 0, the duration   *)
(* is > 0 and the stage time is <= the duration, and 0 otherwise.          *)
(***************************************************************************)
C9_InfusionSchedule ==
  rendered =>
    LET sol == Sol
    IN  \A j \in 1..(Len(sol.t) - 1) :
          \A s \in 1..4 :
            InputTerm(StagesAt(sol, j)[s]) = Scheduled(StagesAt(sol, j)[s])

\* an infusion with a stage time on the boundary, where the term is the rate,
\* and a later stage time, where it is 0
C9_Boundary ==
  /\ rendered
  /\ Gt(p.infusion_mg_min, Zero)
  /\ LET sol == Sol
     IN  /\ \E j \in 1..(Len(sol.t) - 1) :
               /\ StagesAt(sol, j)[4] = p.infusion_duration_min
               /\ InputTerm(StagesAt(sol, j)[4]) = p.infusion_mg_min
         /\ \E j \in 1..(Len(sol.t) - 1) :
               /\ Gt(StagesAt(sol, j)[2], p.infusion_duration_min)
               /\ IsZero(InputTerm(StagesAt(sol, j)[2]))

(***************************************************************************)
(* C10.  No run of update changes what a later run reads: a run that       *)
(* follows another with no input changed by the user in between (it reads  *)
(* the texts the first one left) has the same parameters, the step         *)
(* included, and so the same trace and metrics.                            *)
(***************************************************************************)
C10_RerunSameParameters ==
  [][(rendered /\ raw' = inputs) => p' = p]_vars
====
